---------------------------- MODULE Spec2Model ----------------------------
(***************************************************************************)
(* Collision report generator: src/app.py (the Streamlit pipeline) and     *)
(* src/Main_v04.py (the batch script).                                     *)
(*                                                                         *)
(* A run reads one spreadsheet into a record table df, walks a fixed       *)
(* worklist of candidate sections and appends the emitted sections to a    *)
(* document.  The chart renderer, the narrative service, the map builder   *)
(* and the document library are external; where a call of theirs can       *)
(* raise, the outcome is an input of the action that makes the call.       *)
(***************************************************************************)
EXTENDS Integers, Sequences, FiniteSets, TLC

VARIABLES
    prog,           \* which script runs: "app" (app.py) or "main" (Main_v04.py)
    file,           \* the uploaded spreadsheet: [readable, table]
    df,             \* the record table: [columns, dtype, rows]
    pc,             \* position of the script
    wi,             \* index into the worklist being walked
    doc,            \* the document: sequence of elements
    section_count,  \* app.py's section counter
    figure_count,   \* Main_v04.py's figure counter
    categorical_cols, \* Main_v04.py's selected columns
    warnings,       \* st.warning messages shown
    log,            \* one entry per section candidate handed to the assembler
    saved,          \* the report file has been written
    tin,            \* time functions: the raw input
    tclean,         \* time functions: clean_time_string's result
    tperiod,        \* time functions: classify_period's result
    tpc             \* time functions: position

vars == <<prog, file, df, pc, wi, doc, section_count, figure_count,
          categorical_cols, warnings, log, saved, tin, tclean, tperiod, tpc>>

pipeVars == <<prog, file, df, pc, wi, doc, section_count, figure_count,
              categorical_cols, warnings, log, saved>>

timeVars == <<tin, tclean, tperiod, tpc>>

(***************************************************************************)
(* Bounds of the model.                                                    *)
(***************************************************************************)
MaxRows == 2

MaxLocRows == 11

MaxDistinct == 16

MaxRawLen == 3

(***************************************************************************)
(* Generic helpers.                                                        *)
(***************************************************************************)
Range(s) == {s[i] : i \in DOMAIN s}

RECURSIVE SumOver(_, _)
SumOver(S, f) ==
    IF S = {} THEN 0
    ELSE LET x == CHOOSE y \in S : TRUE
         IN  f[x] + SumOver(S \ {x}, f)

(***************************************************************************)
(* Cells.  A cell is [k, v]: k is "na" (missing), "txt", "num" or "date",  *)
(* v is a tuple: <<>> for a missing value, the characters of a time        *)
(* string, <<s>> for an atomic text, <<n>> for a number, <<y, m, d>> for a *)
(* date.  None (Python) is the missing cell.                               *)
(***************************************************************************)
NA == [k |-> "na", v |-> <<>>]

Txt(s) == [k |-> "txt", v |-> <<s>>]

Str(chars) == [k |-> "txt", v |-> chars]

Num(n) == [k |-> "num", v |-> <<n>>]

Date(y, m, d) == [k |-> "date", v |-> <<y, m, d>>]

isnull(c) == c.k = "na"

(***************************************************************************)
(* Strings are sequences of one-character strings.                         *)
(***************************************************************************)
Digits == <<"0", "1", "2", "3", "4", "5", "6", "7", "8", "9">>

IsDigit(ch) == \E i \in 1..10 : Digits[i] = ch

DigitVal(ch) == (CHOOSE i \in 1..10 : Digits[i] = ch) - 1

DigitChar(n) == Digits[n + 1]

\* str.lower() on the characters the inputs use
LowerChar(ch) ==
    CASE ch = "A" -> "a"
      [] ch = "P" -> "p"
      [] ch = "M" -> "m"
      [] OTHER -> ch

lower(s) == [i \in DOMAIN s |-> LowerChar(s[i])]

RECURSIVE lstrip(_)
lstrip(s) == IF s # <<>> /\ Head(s) = " " THEN lstrip(Tail(s)) ELSE s

RECURSIVE rstrip(_)
rstrip(s) ==
    IF s # <<>> /\ s[Len(s)] = " " THEN rstrip(SubSeq(s, 1, Len(s) - 1)) ELSE s

strip(s) == rstrip(lstrip(s))

\* str.replace(a + b, ''): every non-overlapping occurrence, left to right
RECURSIVE replace2(_, _, _)
replace2(s, a, b) ==
    IF Len(s) < 2 THEN s
    ELSE IF s[1] = a /\ s[2] = b THEN replace2(SubSeq(s, 3, Len(s)), a, b)
    ELSE <<s[1]>> \o replace2(Tail(s), a, b)

\* str.split(':')
RECURSIVE split(_, _)
split(s, acc) ==
    IF s = <<>> THEN <<acc>>
    ELSE IF Head(s) = ":" THEN <<acc>> \o split(Tail(s), <<>>)
    ELSE split(Tail(s), Append(acc, Head(s)))

AllDigits(s) == s # <<>> /\ \A i \in DOMAIN s : IsDigit(s[i])

RECURSIVE DecVal(_)
DecVal(s) ==
    IF s = <<>> THEN 0 ELSE DecVal(SubSeq(s, 1, Len(s) - 1)) * 10 + DigitVal(s[Len(s)])

\* a strptime numeric field: one or two digits
Field(s) == AllDigits(s) /\ Len(s) <= 2

(***************************************************************************)
(* datetime.strptime(t, '%H:%M:%S') and '%I:%M:%S', then the hour and      *)
(* minute strftime('%H:%M') prints.  %H is 2[0-3]|[0-1]\d|\d, %I is        *)
(* 1[0-2]|0[1-9]|[1-9], %M is [0-5]\d|\d, %S is 6[0-1]|[0-5]\d|\d and a    *)
(* second above 59 is rejected by datetime; without %p an %I hour of 12    *)
(* is hour 0.  The result is [ok, h, m].                                   *)
(***************************************************************************)
NoTime == [ok |-> FALSE, h |-> 0, m |-> 0]

strptime(s, fmt) ==
    LET p == split(s, <<>>)
    IN  IF Len(p) # 3 \/ ~Field(p[1]) \/ ~Field(p[2]) \/ ~Field(p[3]) THEN NoTime
        ELSE LET h == DecVal(p[1])
                 m == DecVal(p[2])
                 sec == DecVal(p[3])
                 hourOk == IF fmt = "H" THEN h <= 23 ELSE h >= 1 /\ h <= 12
             IN  IF hourOk /\ m <= 59 /\ sec <= 59
                 THEN [ok |-> TRUE,
                       h |-> IF fmt = "I" /\ h = 12 THEN 0 ELSE h,
                       m |-> m]
                 ELSE NoTime

strftime(h, m) ==
    <<DigitChar(h \div 10), DigitChar(h % 10), ":",
      DigitChar(m \div 10), DigitChar(m % 10)>>

clean_time_string(t) ==
    IF isnull(t) THEN NA
    ELSE LET s == strip(replace2(replace2(strip(lower(t.v)), "p", "m"), "a", "m"))
             r1 == strptime(s, "H")
             r2 == strptime(s, "I")
         IN  IF r1.ok THEN Str(strftime(r1.h, r1.m))
             ELSE IF r2.ok THEN Str(strftime(r2.h, r2.m))
             ELSE NA

\* int(x): surrounding whitespace is ignored, then decimal digits are needed
IntOk(s) == AllDigits(strip(s))

IntVal(s) == DecVal(strip(s))

\* the mutated form puts the hour 12 in the morning
classify_period_offbyone(t) ==
    IF isnull(t) THEN "Unknown"
    ELSE LET x == split(t.v, <<>>)[1]
         IN  IF ~IntOk(x) THEN "Unknown"
             ELSE LET hour == IntVal(x)
                  IN  IF 6 <= hour /\ hour <= 12 THEN "Morning"
                      ELSE IF 12 <= hour /\ hour < 17 THEN "Afternoon"
                      ELSE IF 17 <= hour /\ hour < 21 THEN "Evening"
                      ELSE "Night"

classify_period(t) ==
    IF isnull(t) THEN "Unknown"
    ELSE LET x == split(t.v, <<>>)[1]
         IN  IF ~IntOk(x) THEN "Unknown"
             ELSE LET hour == IntVal(x)
                  IN  IF 6 <= hour /\ hour < 12 THEN "Morning"
                      ELSE IF 12 <= hour /\ hour < 17 THEN "Afternoon"
                      ELSE IF 17 <= hour /\ hour < 21 THEN "Evening"
                      ELSE "Night"

(***************************************************************************)
(* The time functions on their own: an input is drawn, clean_time_string   *)
(* is applied to it and classify_period to the result (app.py:161, 175),   *)
(* or classify_period is applied to the input directly.                    *)
(***************************************************************************)
Suffixes == {<<>>, <<"p", "m">>, <<"a", "m">>, <<" ", "P", "M">>}

MinuteChoices == {0, 5, 59}

HourChars(h, pad) ==
    IF h >= 10 \/ pad THEN <<DigitChar(h \div 10), DigitChar(h % 10)>>
    ELSE <<DigitChar(h)>>

\* the time of day h:m written the way a spreadsheet cell may hold it
TimeText(h, m, pad, sec, suf) ==
    HourChars(h, pad) \o <<":", DigitChar(m \div 10), DigitChar(m % 10)>>
        \o (IF sec THEN <<":", "0", "0">> ELSE <<>>) \o suf

BuiltInputs ==
    {[kind |-> "built", h |-> h, m |-> m, pad |-> pad, sec |-> sec, suf |-> suf,
      s |-> Str(TimeText(h, m, pad, sec, suf))] :
        h \in 0..23, m \in MinuteChoices, pad \in BOOLEAN, sec \in BOOLEAN,
        suf \in Suffixes}

RawChars == {"7", "2", ":", "x", " "}

RECURSIVE RawStrings(_)
RawStrings(n) ==
    IF n = 0 THEN {<<>>}
    ELSE LET shorter == RawStrings(n - 1)
         IN  shorter \cup {Append(s, ch) : s \in shorter, ch \in RawChars}

RawInputs ==
    {[kind |-> "raw", h |-> 0, m |-> 0, pad |-> FALSE, sec |-> FALSE, suf |-> <<>>,
      s |-> Str(s)] : s \in RawStrings(MaxRawLen)}

MissingInput ==
    [kind |-> "missing", h |-> 0, m |-> 0, pad |-> FALSE, sec |-> FALSE,
     suf |-> <<>>, s |-> NA]

TimeInputs == BuiltInputs \cup RawInputs \cup {MissingInput}

NoInput == MissingInput

CleanTime ==
    /\ tpc = "raw"
    /\ tclean' = clean_time_string(tin.s)
    /\ tpc' = "cleaned"
    /\ UNCHANGED <<tin, tperiod>>
    /\ UNCHANGED pipeVars

ClassifyTime ==
    /\ tpc = "cleaned"
    /\ tperiod' = classify_period(tclean)
    /\ tpc' = "classified"
    /\ UNCHANGED <<tin, tclean>>
    /\ UNCHANGED pipeVars

ClassifyDirect ==
    /\ tpc = "raw"
    /\ tclean' = tin.s
    /\ tperiod' = classify_period(tin.s)
    /\ tpc' = "classified"
    /\ UNCHANGED tin
    /\ UNCHANGED pipeVars

(***************************************************************************)
(* The record table.  df is [columns, rows]: columns is the sequence of    *)
(* column names, each row a function from the column names to cells.       *)
(***************************************************************************)
HasCol(d, c) == \E i \in DOMAIN d.columns : d.columns[i] = c

Present(d, c) == {i \in DOMAIN d.rows : ~isnull(d.rows[i][c])}

\* pandas' column type after read_excel: a column holding any text is 'object'
dtype(d, c) ==
    IF \E i \in DOMAIN d.rows : d.rows[i][c].k = "txt" THEN "object"
    ELSE IF \E i \in DOMAIN d.rows : d.rows[i][c].k = "date" THEN "datetime64"
    ELSE "float64"

nunique(d, c) == Cardinality({d.rows[i][c].v : i \in Present(d, c)})

\* df[name] = vals, one value for every row
WithColumn(d, name, vals) ==
    [columns |-> IF HasCol(d, name) THEN d.columns ELSE Append(d.columns, name),
     rows |-> [i \in DOMAIN d.rows |->
                 [c \in (DOMAIN d.rows[i]) \cup {name} |->
                     IF c = name THEN vals[i] ELSE d.rows[i][c]]]]

EmptyTable == [columns |-> <<>>, rows |-> <<>>]

(***************************************************************************)
(* Frequency tables.  A table is [kind, index, columns, val]: kind is      *)
(* "series" or "frame", index the set of row labels, columns the set of    *)
(* column labels (one label for a series) and val the cell of every        *)
(* (row label, column label): <<n>> for the number n, <<>> for NaN.  A     *)
(* label is the v of the cell it was counted from.  The order of the       *)
(* labels is left out: the assembler reads len(chart_data) only.           *)
(***************************************************************************)
NaN == <<>>

SeriesCol == <<"count">>

Series(idx, cnt) ==
    [kind |-> "series", index |-> idx, columns |-> {SeriesCol},
     val |-> [p \in idx \X {SeriesCol} |-> <<cnt[p[1]]>>]]

len(t) == Cardinality(t.index)

empty(t) == t.index = {} \/ t.columns = {}

CellNum(x) == IF x = NaN THEN 0 ELSE x[1]

\* the sum of the numbers the table holds
Total(t) == SumOver(t.index \X t.columns, [p \in t.index \X t.columns |-> CellNum(t.val[p])])

HasNaN(t) == \E p \in t.index \X t.columns : t.val[p] = NaN

\* df[c].value_counts(): missing values are not counted
value_counts(d, c) ==
    LET idx == {d.rows[i][c].v : i \in Present(d, c)}
    IN  Series(idx, [x \in idx |->
                       Cardinality({i \in Present(d, c) : d.rows[i][c].v = x})])

\* df.groupby([g, c]).size().unstack(fill_value=0): rows missing a key are dropped
groupby_size_unstack(d, g, c) ==
    LET both == Present(d, g) \cap Present(d, c)
        idx == {d.rows[i][g].v : i \in both}
        cols == {d.rows[i][c].v : i \in both}
    IN  [kind |-> "frame", index |-> idx, columns |-> cols,
         val |-> [p \in idx \X cols |->
                    <<Cardinality({i \in both : /\ d.rows[i][g].v = p[1]
                                                /\ d.rows[i][c].v = p[2]})>>]]

\* .reindex(order): a label of order the table lacks gets a row of NaN
reindex(t, order) ==
    [kind |-> t.kind, index |-> Range(order), columns |-> t.columns,
     val |-> [p \in Range(order) \X t.columns |->
                IF p[1] \in t.index THEN t.val[p] ELSE NaN]]

\* grouped.sum(axis=1)
sum_axis1(t) ==
    Series(t.index, [x \in t.index |->
                       SumOver(t.columns, [c \in t.columns |-> CellNum(t.val[<<x, c>>])])])

HeadRows == 10

\* .sort_values(ascending=False).head(10) keeps 10 labels of largest count;
\* which of several equal counts come first is the sort's own choice
TopSets(t) ==
    LET n == IF len(t) < HeadRows THEN len(t) ELSE HeadRows
    IN  {S \in SUBSET t.index :
            /\ Cardinality(S) = n
            /\ \A a \in S, b \in t.index \ S :
                  t.val[<<a, SeriesCol>>][1] >= t.val[<<b, SeriesCol>>][1]}

Restrict(t, S) ==
    [kind |-> t.kind, index |-> S, columns |-> t.columns,
     val |-> [p \in S \X t.columns |-> t.val[p]]]

(***************************************************************************)
(* Derived date fields (app.py:130-140).                                   *)
(***************************************************************************)
\* pd.to_datetime(errors='coerce'): what is no date becomes NaT
to_datetime(c) == IF c.k = "date" THEN c ELSE NA

MonthOffset == <<0, 3, 2, 5, 0, 3, 5, 1, 4, 6, 2, 4>>

\* .dt.dayofweek of a date: Monday is 0
dayofweek(c) ==
    LET y == IF c.v[2] < 3 THEN c.v[1] - 1 ELSE c.v[1]
        sundayFirst == (y + (y \div 4) - (y \div 100) + (y \div 400)
                          + MonthOffset[c.v[2]] + c.v[3]) % 7
    IN  (sundayFirst + 6) % 7

weekday_order ==
    <<"Monday", "Tuesday", "Wednesday", "Thursday", "Friday", "Saturday", "Sunday">>

month_order ==
    <<"January", "February", "March", "April", "May", "June", "July", "August",
      "September", "October", "November", "December">>

period_order == <<"Morning", "Afternoon", "Evening", "Night">>

Labels(order) == [i \in DOMAIN order |-> <<order[i]>>]

day_name(c) == IF isnull(c) THEN NA ELSE Txt(weekday_order[dayofweek(c) + 1])

month_name(c) == IF isnull(c) THEN NA ELSE Txt(month_order[c.v[2]])

\* lambda x: 'Weekend' if x >= 5 else 'Weekday', applied to .dt.dayofweek:
\* the day of week of NaT is NaN, and NaN >= 5 is False
day_type(c) ==
    IF isnull(c) THEN Txt("Weekday")
    ELSE IF dayofweek(c) >= 5 THEN Txt("Weekend") ELSE Txt("Weekday")

(***************************************************************************)
(* The document.  An element is [t, n, s]: t is "title", "heading",        *)
(* "picture", "caption", "para" or "break", n the ordinal the element      *)
(* prints (0 when it prints none) and s its text.                          *)
(***************************************************************************)
El(t, n, s) == [t |-> t, n |-> n, s |-> s]

FrontMatter(preparer) ==
    <<El("title", 0, "Collision Analysis Report"), El("para", 0, preparer),
      El("break", 0, "")>>

\* what the external calls of one section do: the chart renderer returns or
\* raises, the narrative service returns a text, returns an empty text or raises
RenderOutcomes == {"ok", "raise"}

NarrativeOutcomes == {"ok", "empty", "raise"}

\* the variant lets a failed call leave the summary empty
Summary_blank(nOut, placeholder) ==
    CASE nOut = "ok" -> "summary"
      [] nOut = "empty" -> ""
      [] nOut = "raise" -> ""

\* response.choices[0].message.content.strip(), or the except branch's text
Summary(nOut, placeholder) ==
    CASE nOut = "ok" -> "summary"
      [] nOut = "empty" -> ""
      [] nOut = "raise" -> placeholder

\* DataFrame.plot raises "no numeric data to plot" for a frame without columns
PlotRaises(t, rOut) == rOut = "raise" \/ (t.kind = "frame" /\ t.columns = {})

ChartKind(t, chart_type) ==
    IF chart_type = "pie" /\ len(t) <= 6 THEN "pie"
    ELSE IF t.kind = "frame" THEN "stacked bar" ELSE "bar"

\* a log entry: what one call of the assembler was handed and what it did
LogEntry(title, t, before, after, rendered, narr, calls, raised) ==
    [title |-> title, table |-> t,
     ordBefore |-> before.n, ordAfter |-> after.n,
     docBefore |-> Len(before.doc), docAfter |-> Len(after.doc),
     rendered |-> rendered, narr |-> narr, calls |-> calls, raised |-> raised]

\* the variant emits a table of a single category as well
TooFew_one(t) == len(t) < 1

\* if len(chart_data) < 2: return
TooFew(t) == len(t) < 2

(***************************************************************************)
(* add_section (app.py:57-102).  st is [doc, n, log] with n the section    *)
(* counter; the result adds raised: an exception left the function.        *)
(*   - fewer than 2 labels: return;                                        *)
(*   - the chart is rendered (it may raise, nothing is written yet);       *)
(*   - the narrative service is called once inside try/except;             *)
(*   - heading, picture, caption and paragraph are appended; python-docx   *)
(*     adds no run to a paragraph of empty text, so para.runs[0] raises    *)
(*     IndexError for an empty summary, after the four elements were       *)
(*     appended and before the counter is raised;                          *)
(*   - page break, counter + 1.                                            *)
(***************************************************************************)
add_section(st, title, t, chart_type, rOut, nOut) ==
    IF TooFew(t)
    THEN [doc |-> st.doc, n |-> st.n, raised |-> FALSE,
          log |-> Append(st.log, LogEntry(title, t, st, st, FALSE, "none", 0, FALSE))]
    ELSE IF PlotRaises(t, rOut)
    THEN [doc |-> st.doc, n |-> st.n, raised |-> TRUE,
          log |-> Append(st.log, LogEntry(title, t, st, st, FALSE, "none", 0, TRUE))]
    ELSE LET summary == Summary(nOut, "[GPT Error: e]")
             written == st.doc \o
                 <<El("heading", st.n, title), El("picture", st.n, ChartKind(t, chart_type)),
                   El("caption", st.n, title), El("para", 0, summary)>>
             after == [doc |-> written \o <<El("break", 0, "")>>, n |-> st.n + 1]
         IN  IF summary = ""
             THEN [doc |-> written, n |-> st.n, raised |-> TRUE,
                   log |-> Append(st.log,
                       LogEntry(title, t, st, [doc |-> written, n |-> st.n],
                                TRUE, nOut, 1, TRUE))]
             ELSE [doc |-> after.doc, n |-> after.n, raised |-> FALSE,
                   log |-> Append(st.log, LogEntry(title, t, st, after, TRUE, nOut, 1, FALSE))]

\* the state the assembler works on
AppState == [doc |-> doc, n |-> section_count, log |-> log]

CLS == "Classification Of Accident"

LOC == "Location"

ADATE == "Accident Date"

ATIME == "Accident Time"

LAT == "Latitude"

LON == "Longitude"

Outcomes == RenderOutcomes \X NarrativeOutcomes

\* the script's position after a section outside any try block
AfterCall(r, next) == IF r.raised THEN "failed" ELSE next

(***************************************************************************)
(* app.py, line by line.                                                   *)
(***************************************************************************)
\* lines 45-55: read the file, start the document, section_count = 1
Load ==
    /\ prog = "app" /\ pc = "start"
    /\ IF file.readable
       THEN /\ df' = file.table
            /\ doc' = FrontMatter("Prepared automatically by Mobility Edge Solution")
            /\ section_count' = 1
            /\ pc' = "severity"
       ELSE /\ pc' = "failed"
            /\ UNCHANGED <<df, doc, section_count>>
    /\ UNCHANGED <<prog, file, wi, figure_count, categorical_cols, warnings, log,
                   saved, timeVars>>

\* lines 104-105
Severity ==
    /\ prog = "app" /\ pc = "severity"
    /\ \E o \in Outcomes :
        LET r == IF HasCol(df, CLS)
                 THEN add_section(AppState, "Accident Severity Distribution",
                                  value_counts(df, CLS), "pie", o[1], o[2])
                 ELSE [doc |-> doc, n |-> section_count, log |-> log, raised |-> FALSE]
        IN  /\ doc' = r.doc
            /\ section_count' = r.n
            /\ log' = r.log
            /\ pc' = AfterCall(r, "sevloc")
    /\ UNCHANGED <<prog, file, df, wi, figure_count, categorical_cols, warnings,
                   saved, timeVars>>

\* lines 107-110
SeverityByLocation ==
    /\ prog = "app" /\ pc = "sevloc"
    /\ LET grouped == groupby_size_unstack(df, LOC, CLS)
       IN  IF HasCol(df, CLS) /\ HasCol(df, LOC) /\ ~empty(grouped)
           THEN \E o \in Outcomes, S \in TopSets(sum_axis1(grouped)) :
                   LET r == add_section(AppState, "Severity by Location",
                                        Restrict(sum_axis1(grouped), S), "bar",
                                        o[1], o[2])
                   IN  /\ doc' = r.doc
                       /\ section_count' = r.n
                       /\ log' = r.log
                       /\ pc' = AfterCall(r, "fields")
           ELSE /\ pc' = "fields"
                /\ UNCHANGED <<doc, section_count, log>>
    /\ wi' = 1
    /\ UNCHANGED <<prog, file, df, figure_count, categorical_cols, warnings,
                   saved, timeVars>>

\* the single-field candidates of lines 112-126, in order
Worklist ==
    <<[col |-> "Accident Year", title |-> "Accidents by Accident Year", chart |-> "bar"],
      [col |-> "Accident Day", title |-> "Accidents by Accident Day", chart |-> "bar"],
      [col |-> "Light", title |-> "Light Distribution", chart |-> "bar"],
      [col |-> "Environment Condition 1",
       title |-> "Environment Condition 1 Distribution", chart |-> "bar"],
      [col |-> "Environment Condition 2",
       title |-> "Environment Condition 2 Distribution", chart |-> "bar"],
      [col |-> "Initial Impact Type", title |-> "Initial Impact Type Analysis",
       chart |-> "pie"],
      [col |-> "Impact Location", title |-> "Impact Location Analysis", chart |-> "pie"],
      [col |-> "Apparent Driver 1 Action", title |-> "Apparent Driver 1 Action Trends",
       chart |-> "bar"],
      [col |-> "Apparent Driver 2 Action", title |-> "Apparent Driver 2 Action Trends",
       chart |-> "bar"],
      [col |-> "Driver 1 Condition", title |-> "Driver 1 Condition Trends",
       chart |-> "bar"],
      [col |-> "Driver 2 Condition", title |-> "Driver 2 Condition Trends",
       chart |-> "bar"]>>

\* one iteration of the loops of lines 112-126
SingleField ==
    /\ prog = "app" /\ pc = "fields"
    /\ \E o \in Outcomes :
        LET w == Worklist[wi]
            r == IF HasCol(df, w.col)
                 THEN add_section(AppState, w.title, value_counts(df, w.col), w.chart,
                                  o[1], o[2])
                 ELSE [doc |-> doc, n |-> section_count, log |-> log, raised |-> FALSE]
        IN  /\ doc' = r.doc
            /\ section_count' = r.n
            /\ log' = r.log
            /\ pc' = AfterCall(r, IF wi = Len(Worklist) THEN "date" ELSE "fields")
            /\ wi' = IF wi = Len(Worklist) THEN wi ELSE wi + 1
    /\ UNCHANGED <<prog, file, df, figure_count, categorical_cols, warnings,
                   saved, timeVars>>

Sub(r) == [doc |-> r.doc, n |-> r.n, log |-> r.log]

\* lines 128-145: the three date-based sections share one try block
DateSections ==
    /\ prog = "app" /\ pc = "date"
    /\ IF HasCol(df, ADATE) /\ HasCol(df, CLS)
       THEN \E o1 \in Outcomes, o2 \in Outcomes, o3 \in Outcomes :
            LET d1 == WithColumn(df, ADATE, [i \in DOMAIN df.rows |-> to_datetime(df.rows[i][ADATE])])
                d2 == WithColumn(d1, "Day of Week", [i \in DOMAIN d1.rows |-> day_name(d1.rows[i][ADATE])])
                weekday_grouped ==
                    reindex(groupby_size_unstack(d2, "Day of Week", CLS),
                            Labels(weekday_order))
                r1 == add_section(AppState, "Accident Type by Day of Week",
                                  weekday_grouped, "bar", o1[1], o1[2])
                d3 == WithColumn(d2, "Day Type", [i \in DOMAIN d2.rows |-> day_type(d2.rows[i][ADATE])])
                daytype_grouped == groupby_size_unstack(d3, "Day Type", CLS)
                r2 == add_section(Sub(r1), "Accident Type by Weekday vs Weekend",
                                  daytype_grouped, "bar", o2[1], o2[2])
                d4 == WithColumn(d3, "Accident Month",
                                 [i \in DOMAIN d3.rows |-> month_name(d3.rows[i][ADATE])])
                month_grouped ==
                    reindex(groupby_size_unstack(d4, "Accident Month", CLS),
                            Labels(month_order))
                r3 == add_section(Sub(r2), "Accident Type by Month",
                                  month_grouped, "bar", o3[1], o3[2])
                end == IF r1.raised THEN [r |-> r1, d |-> d2]
                       ELSE IF r2.raised THEN [r |-> r2, d |-> d3]
                       ELSE [r |-> r3, d |-> d4]
            IN  /\ df' = end.d
                /\ doc' = end.r.doc
                /\ section_count' = end.r.n
                /\ log' = end.r.log
                /\ warnings' = IF end.r.raised
                               THEN Append(warnings, "Could not process date-based charts")
                               ELSE warnings
       ELSE UNCHANGED <<df, doc, section_count, log, warnings>>
    /\ pc' = "time"
    /\ UNCHANGED <<prog, file, wi, figure_count, categorical_cols, saved, timeVars>>

\* df[df['Time Period'].isin(period_order)]
isin_periods(d) ==
    [columns |-> d.columns,
     rows |-> SelectSeq(d.rows,
                 LAMBDA row : \E i \in DOMAIN period_order :
                                 row["Time Period"] = Txt(period_order[i]))]

\* lines 147-181: the time-of-day section and its try block
TimeSection ==
    /\ prog = "app" /\ pc = "time"
    /\ IF HasCol(df, ATIME) /\ HasCol(df, CLS)
       THEN \E o \in Outcomes :
            LET d1 == WithColumn(df, "Cleaned Time",
                                 [i \in DOMAIN df.rows |-> clean_time_string(df.rows[i][ATIME])])
                d2 == WithColumn(d1, "Time Period",
                                 [i \in DOMAIN d1.rows |-> Txt(classify_period(d1.rows[i]["Cleaned Time"]))])
                df_filtered == isin_periods(d2)
                time_grouped ==
                    reindex(groupby_size_unstack(df_filtered, "Time Period", CLS),
                            Labels(period_order))
                r == add_section(AppState, "Accident Type by Time of Day",
                                 time_grouped, "bar", o[1], o[2])
            IN  /\ df' = d2
                /\ doc' = r.doc
                /\ section_count' = r.n
                /\ log' = r.log
                /\ warnings' = IF r.raised
                               THEN Append(warnings, "Could not process time of day")
                               ELSE warnings
       ELSE UNCHANGED <<df, doc, section_count, log, warnings>>
    /\ pc' = "map"
    /\ UNCHANGED <<prog, file, wi, figure_count, categorical_cols, saved, timeVars>>

\* map_df['Latitude'].between(-90, 90)
LatOk(c) == -90 <= c.v[1] /\ c.v[1] <= 90

\* map_df['Longitude'].between(-180, 180)
LonOk(c) == -180 <= c.v[1] /\ c.v[1] <= 180

\* lines 192-193: the rows the map plots
map_rows(d) ==
    {i \in DOMAIN d.rows :
        /\ ~isnull(d.rows[i][LAT]) /\ ~isnull(d.rows[i][LON]) /\ ~isnull(d.rows[i][CLS])
        /\ LatOk(d.rows[i][LAT]) /\ LonOk(d.rows[i][LON])}

\* what the map step's external calls do: all return, one of lines 186-243
\* raises (imports, map, browser, screenshot), or line 246 raises (the picture)
MapOutcomes == {"ok", "raise early", "raise late"}

MapTitle == "Spatial Distribution of Accidents"

\* lines 184-255
MapSection ==
    /\ prog = "app" /\ pc = "map"
    /\ IF HasCol(df, LAT) /\ HasCol(df, LON) /\ HasCol(df, CLS)
       THEN \E mOut \in MapOutcomes :
            IF mOut = "raise early"
            THEN /\ warnings' = Append(warnings, "Could not generate folium map")
                 /\ UNCHANGED <<doc, section_count>>
            ELSE IF map_rows(df) = {}
            THEN /\ warnings' = Append(warnings,
                       "Latitude/Longitude data is present but empty or out of bounds.")
                 /\ UNCHANGED <<doc, section_count>>
            ELSE IF mOut = "raise late"
            THEN /\ doc' = Append(doc, El("heading", section_count, MapTitle))
                 /\ warnings' = Append(warnings, "Could not generate folium map")
                 /\ UNCHANGED section_count
            ELSE /\ doc' = doc \o
                       <<El("heading", section_count, MapTitle),
                         El("picture", section_count, "map"),
                         El("caption", section_count,
                            "High-quality map showing accident types with legend."),
                         El("break", 0, "")>>
                 /\ section_count' = section_count + 1
                 /\ UNCHANGED warnings
       ELSE UNCHANGED <<doc, section_count, warnings>>
    /\ pc' = "diagram"
    /\ UNCHANGED <<prog, file, df, wi, figure_count, categorical_cols, log, saved,
                   timeVars>>

DiagramTitle == "Collision Type Diagrams"

\* lines 257-259: the closing section
DiagramSection ==
    /\ prog = "app" /\ pc = "diagram"
    /\ doc' = doc \o
          <<El("heading", section_count, DiagramTitle),
            El("para", 0, "[Custom collision type diagrams will be rendered in future versions.]"),
            El("break", 0, "")>>
    /\ pc' = "save"
    /\ UNCHANGED <<prog, file, df, wi, section_count, figure_count, categorical_cols,
                   warnings, log, saved, timeVars>>

\* lines 261-265: doc.save
SaveReport ==
    /\ prog = "app" /\ pc = "save"
    /\ saved' = TRUE
    /\ pc' = "done"
    /\ UNCHANGED <<prog, file, df, wi, doc, section_count, figure_count,
                   categorical_cols, warnings, log, timeVars>>

(***************************************************************************)
(* Main_v04.py, line by line.                                              *)
(***************************************************************************)
excluded_cols == {"Latitude", "Longitude", "X-Coordinate", "Y-Coordinate"}

\* the variant admits a column of a single distinct value
Qualifies_from1(d, col) ==
    /\ dtype(d, col) = "object"
    /\ col \notin excluded_cols
    /\ 1 <= nunique(d, col) /\ nunique(d, col) <= 15

\* lines 25-27: the test a column passes to be selected
Qualifies(d, col) ==
    /\ dtype(d, col) = "object"
    /\ col \notin excluded_cols
    /\ 2 <= nunique(d, col) /\ nunique(d, col) <= 15

\* line 18: read the file
MainLoad ==
    /\ prog = "main" /\ pc = "start"
    /\ IF file.readable
       THEN /\ df' = file.table
            /\ pc' = "classify"
       ELSE /\ pc' = "failed"
            /\ UNCHANGED df
    /\ UNCHANGED <<prog, file, wi, doc, section_count, figure_count, categorical_cols,
                   warnings, log, saved, timeVars>>

\* lines 22-37: select the columns, start the document, figure_count = 1
MainClassify ==
    /\ prog = "main" /\ pc = "classify"
    /\ categorical_cols' = SelectSeq(df.columns, LAMBDA col : Qualifies(df, col))
    /\ doc' = FrontMatter("Generated automatically by Mobility Edge Solutions")
    /\ figure_count' = 1
    /\ wi' = 1
    /\ pc' = "loop"
    /\ UNCHANGED <<prog, file, df, section_count, warnings, log, saved, timeVars>>

\* lines 40-95: one iteration of the loop over categorical_cols; nothing
\* catches what the renderer or the document library raises
MainSection ==
    /\ prog = "main" /\ pc = "loop" /\ wi <= Len(categorical_cols)
    /\ \E o \in Outcomes :
        LET col == categorical_cols[wi]
            t == value_counts(df, col)
            st == [doc |-> doc, n |-> figure_count]
            summary == Summary(o[2], "[GPT error: e]")
            written == doc \o
                <<El("heading", figure_count, col),
                  El("picture", figure_count, IF len(t) <= 5 THEN "pie" ELSE "bar"),
                  El("caption", figure_count, col), El("para", 0, summary)>>
            after == [doc |-> written \o <<El("break", 0, "")>>, n |-> figure_count + 1]
        IN  IF len(t) < 2
            THEN /\ log' = Append(log, LogEntry(col, t, st, st, FALSE, "none", 0, FALSE))
                 /\ pc' = "loop"
                 /\ UNCHANGED <<doc, figure_count>>
            ELSE IF o[1] = "raise"
            THEN /\ log' = Append(log, LogEntry(col, t, st, st, FALSE, "none", 0, TRUE))
                 /\ pc' = "failed"
                 /\ UNCHANGED <<doc, figure_count>>
            ELSE IF summary = ""
            THEN /\ log' = Append(log, LogEntry(col, t, st, [doc |-> written, n |-> st.n],
                                                TRUE, o[2], 1, TRUE))
                 /\ doc' = written
                 /\ pc' = "failed"
                 /\ UNCHANGED figure_count
            ELSE /\ log' = Append(log, LogEntry(col, t, st, after, TRUE, o[2], 1, FALSE))
                 /\ doc' = after.doc
                 /\ figure_count' = after.n
                 /\ pc' = "loop"
    /\ wi' = wi + 1
    /\ UNCHANGED <<prog, file, df, section_count, categorical_cols, warnings, saved,
                   timeVars>>

\* lines 98-100: doc.save
MainSave ==
    /\ prog = "main" /\ pc = "loop" /\ wi > Len(categorical_cols)
    /\ saved' = TRUE
    /\ pc' = "done"
    /\ UNCHANGED <<prog, file, df, wi, doc, section_count, figure_count,
                   categorical_cols, warnings, log, timeVars>>

(***************************************************************************)
(* The spreadsheets a run is given.  A family names the columns and the    *)
(* rows a table may hold; a table of a family has up to n of these rows.   *)
(* No operation of either script reads the order of the rows, so the       *)
(* tables are drawn with their rows in the family's order.                 *)
(***************************************************************************)
NonDecreasing(k, d) ==
    {idx \in [1..k -> 1..d] : \A j \in 1..(k - 1) : idx[j] <= idx[j + 1]}

TablesOf(fam, n) ==
    {[columns |-> fam.columns, rows |-> [j \in 1..k |-> fam.rows[idx[j]]]] :
        k \in {n}, idx \in NonDecreasing(n, Len(fam.rows))}

RECURSIVE TablesUpTo(_, _)
TablesUpTo(fam, n) ==
    IF n = 0 THEN TablesOf(fam, 0) ELSE TablesOf(fam, n) \cup TablesUpTo(fam, n - 1)

\* the rows over two or three columns, every combination of the cells given
Rows2(c1, dom1, c2, dom2) ==
    [i \in 1..(Len(dom1) * Len(dom2)) |->
        (c1 :> dom1[((i - 1) % Len(dom1)) + 1])
        @@ (c2 :> dom2[((i - 1) \div Len(dom1)) + 1])]

Rows3(c1, dom1, c2, dom2, c3, dom3) ==
    [i \in 1..(Len(dom1) * Len(dom2) * Len(dom3)) |->
        (c1 :> dom1[((i - 1) % Len(dom1)) + 1])
        @@ (c2 :> dom2[(((i - 1) \div Len(dom1)) % Len(dom2)) + 1])
        @@ (c3 :> dom3[((i - 1) \div (Len(dom1) * Len(dom2))) + 1])]

ClsCells == <<NA, Txt("Fatal"), Txt("Injury")>>

DateCells == <<NA, Date(2024, 1, 1), Date(2024, 2, 3), Txt("n/a")>>

T0730 == Str(<<"0", "7", ":", "3", "0", ":", "0", "0">>)

T2115 == Str(<<"2", "1", ":", "1", "5", ":", "0", "0">>)

T105pm == Str(<<"1", ":", "0", "5", "p", "m">>)

TimeCells == <<NA, T0730, T2115, T105pm>>

LatCells == <<NA, Num(90), Num(95)>>

LonCells == <<Num(-180), Num(181)>>

LightCells == <<NA, Txt("Day"), Txt("Dark")>>

DateFamily ==
    [columns |-> <<CLS, ADATE>>, rows |-> Rows2(CLS, ClsCells, ADATE, DateCells)]

TimeFamily ==
    [columns |-> <<CLS, ATIME>>, rows |-> Rows2(CLS, ClsCells, ATIME, TimeCells)]

MapFamily ==
    [columns |-> <<CLS, LAT, LON>>,
     rows |-> Rows3(CLS, <<NA, Txt("Fatal")>>, LAT, LatCells, LON, LonCells)]

LocationFamily ==
    [columns |-> <<CLS, LOC>>,
     rows |-> Rows2(CLS, ClsCells, LOC, <<NA, Txt("L1"), Txt("L2")>>)]

LightFamily ==
    [columns |-> <<"Light", LAT>>,
     rows |-> Rows2("Light", LightCells, LAT, <<Txt("N45"), Txt("N46")>>)]

FullRow(cls, loc, date, time, lat, lon, light) ==
    (CLS :> cls) @@ (LOC :> loc) @@ (ADATE :> date) @@ (ATIME :> time)
    @@ (LAT :> lat) @@ (LON :> lon) @@ ("Light" :> light)

FullFamily ==
    [columns |-> <<CLS, LOC, ADATE, ATIME, LAT, LON, "Light">>,
     rows |-> <<FullRow(Txt("Fatal"), Txt("L1"), Date(2024, 1, 1), T0730,
                        Num(90), Num(-180), Txt("Day")),
                FullRow(Txt("Injury"), Txt("L2"), Date(2024, 2, 3), T2115,
                        Num(-90), Num(180), Txt("Dark"))>>]

AppTables ==
    TablesUpTo(DateFamily, MaxRows) \cup TablesUpTo(TimeFamily, MaxRows)
    \cup TablesUpTo(MapFamily, MaxRows) \cup TablesUpTo(LocationFamily, MaxRows)
    \cup TablesUpTo(LightFamily, MaxRows) \cup TablesUpTo(FullFamily, MaxRows)

Files(tables) ==
    {[readable |-> TRUE, table |-> t] : t \in tables}
    \cup {[readable |-> FALSE, table |-> EmptyTable]}

InitRun(tables) ==
    /\ prog \in {"app", "main"}
    /\ file \in Files(tables)
    /\ df = EmptyTable
    /\ pc = "start"
    /\ wi = 1
    /\ doc = <<>>
    /\ section_count = 1
    /\ figure_count = 1
    /\ categorical_cols = <<>>
    /\ warnings = <<>>
    /\ log = <<>>
    /\ saved = FALSE
    /\ tin = NoInput
    /\ tclean = NA
    /\ tperiod = "Unknown"
    /\ tpc = "idle"

Init == InitRun(AppTables)

Next ==
    \/ Load
    \/ Severity
    \/ SeverityByLocation
    \/ SingleField
    \/ DateSections
    \/ TimeSection
    \/ MapSection
    \/ DiagramSection
    \/ SaveReport
    \/ MainLoad
    \/ MainClassify
    \/ MainSection
    \/ MainSave

Spec == Init /\ [][Next]_vars

(***************************************************************************)
(* Tables of many categories.  A column of a wide table has k distinct     *)
(* values, 0 <= k <= MaxDistinct, in its first k rows and either nothing   *)
(* or a repeat of the first value in the rows below.                       *)
(***************************************************************************)
WideCell(kind, k, fill, r) ==
    IF r <= k THEN (IF kind = "txt" THEN Txt(r) ELSE Num(r))
    ELSE IF fill = "dup" /\ k >= 1 THEN (IF kind = "txt" THEN Txt(1) ELSE Num(1))
    ELSE NA

WideTable(kind, k, fill, latKind) ==
    [columns |-> <<"Light", LAT>>,
     rows |-> [r \in 1..(MaxDistinct + 1) |->
                 ("Light" :> WideCell(kind, k, fill, r))
                 @@ (LAT :> WideCell(latKind, 3, "na", r))]]

WideTables ==
    {WideTable(kind, k, fill, latKind) :
        kind \in {"txt", "num"}, k \in 0..MaxDistinct, fill \in {"na", "dup"},
        latKind \in {"txt", "num"}}

InitWide == InitRun(WideTables)

SpecWide == InitWide /\ [][Next]_vars

\* n rows at n different locations, the first m of them classified
LocTable(n, m) ==
    [columns |-> <<CLS, LOC>>,
     rows |-> [r \in 1..n |->
                 (CLS :> IF r <= m THEN Txt("Fatal") ELSE NA) @@ (LOC :> Txt(r))]]

LocTables == {LocTable(n, m) : n \in 0..MaxLocRows, m \in 0..MaxLocRows}

InitLoc == InitRun(LocTables)

SpecLoc == InitLoc /\ [][Next]_vars

InitTime ==
    /\ prog = "app"
    /\ file = [readable |-> FALSE, table |-> EmptyTable]
    /\ df = EmptyTable
    /\ pc = "idle"
    /\ wi = 1
    /\ doc = <<>>
    /\ section_count = 1
    /\ figure_count = 1
    /\ categorical_cols = <<>>
    /\ warnings = <<>>
    /\ log = <<>>
    /\ saved = FALSE
    /\ tin \in TimeInputs
    /\ tclean = NA
    /\ tperiod = "Unknown"
    /\ tpc = "raw"

NextTime ==
    \/ CleanTime
    \/ ClassifyTime
    \/ ClassifyDirect

SpecTime == InitTime /\ [][NextTime]_vars

(***************************************************************************)
(* Properties.                                                             *)
(***************************************************************************)
Headings == SelectSeq(doc, LAMBDA e : e.t = "heading")

LogSet == Range(log)

NoCallRaised == \A e \in LogSet : ~e.raised

\* C1: the headings of the report carry the ordinals 1, 2, 3, ... with no
\* gap and no repeat, whatever candidates were skipped, whichever narrative
\* calls failed and whatever the map step did (no map, map, an exception at
\* any point of the map step).
C1_OrdinalsContiguous ==
    NoCallRaised => \A i \in DOMAIN Headings : Headings[i].n = i

NamedPeriods == {"Morning", "Afternoon", "Evening", "Night"}

\* a normalized time: two digits, a colon, two digits, as strftime('%H:%M') prints
Normalized(s) ==
    /\ Len(s) = 5 /\ s[3] = ":"
    /\ IsDigit(s[1]) /\ IsDigit(s[2]) /\ IsDigit(s[4]) /\ IsDigit(s[5])
    /\ 10 * DigitVal(s[1]) + DigitVal(s[2]) <= 23
    /\ 10 * DigitVal(s[4]) + DigitVal(s[5]) <= 59

HourOf(s) == 10 * DigitVal(s[1]) + DigitVal(s[2])

BucketOfHour(h) ==
    CASE 6 <= h /\ h < 12 -> "Morning"
      [] 12 <= h /\ h < 17 -> "Afternoon"
      [] 17 <= h /\ h < 21 -> "Evening"
      [] OTHER -> "Night"

\* C2: classify_period maps every input to exactly one of Morning, Afternoon,
\* Evening, Night, Unknown: a missing value to Unknown, a normalized HH:MM
\* with hour h to Morning iff 6 <= h < 12, Afternoon iff 12 <= h < 17, Evening
\* iff 17 <= h < 21 and Night otherwise, and a string whose leading field is
\* no number to Unknown.
C2_ClassifyTotal ==
    tpc = "classified" =>
        /\ tperiod \in NamedPeriods \cup {"Unknown"}
        /\ isnull(tclean) => tperiod = "Unknown"
        /\ (~isnull(tclean) /\ Normalized(tclean.v)) =>
               tperiod = BucketOfHour(HourOf(tclean.v))
        /\ (~isnull(tclean) /\ ~IntOk(split(tclean.v, <<>>)[1])) => tperiod = "Unknown"

\* 11:59 has been classified as Morning, 12:00 as Afternoon is reached likewise
C2_Witness ==
    /\ tpc = "classified"
    /\ tclean = Str(<<"1", "1", ":", "5", "9">>)
    /\ tperiod = "Morning"

IsPm(suf) == lower(strip(suf)) = <<"p", "m">>

\* C3: clean_time_string gives a time its 24-hour HH:MM form and honours the
\* suffix: with pm an hour h in 1..11, written with one or two digits,
\* becomes h + 12 (1:05pm becomes 13:05).
C3_PmHonoured ==
    (tpc = "cleaned" /\ tin.kind = "built" /\ IsPm(tin.suf)
        /\ tin.h >= 1 /\ tin.h <= 11) =>
            tclean = Str(strftime(tin.h + 12, tin.m))

ReindexedTitles ==
    {"Accident Type by Day of Week", "Accident Type by Month",
     "Accident Type by Time of Day"}

CanonicalRows(title) ==
    CASE title = "Accident Type by Day of Week" -> Range(Labels(weekday_order))
      [] title = "Accident Type by Month" -> Range(Labels(month_order))
      [] title = "Accident Type by Time of Day" -> Range(Labels(period_order))

\* C4: every cross-tabulation handed to add_section for the day of week, the
\* month and the time period has a row for every value of the canonical
\* ordering and holds a number in every cell, 0 where no record falls, also
\* in the rows of the groups without any record.
C4_DenseCrossTab ==
    \A e \in LogSet :
        (prog = "app" /\ e.title \in ReindexedTitles) =>
            /\ e.table.index = CanonicalRows(e.title)
            /\ ~HasNaN(e.table)

\* the rows of the uploaded table that hold a date pd.to_datetime keeps
DatedRows(d) == {i \in DOMAIN d.rows : d.rows[i][ADATE].k = "date"}

\* the rows of the uploaded table whose time clean_time_string can read
TimedRows(d) == {i \in DOMAIN d.rows : ~isnull(clean_time_string(d.rows[i][ATIME]))}

DateTitles ==
    {"Accident Type by Day of Week", "Accident Type by Weekday vs Weekend",
     "Accident Type by Month"}

\* the number of rows of the uploaded table that contribute to the table of
\* the section of this title
Contributing(title) ==
    LET d == file.table
    IN  IF prog = "main" THEN Cardinality(Present(d, title))
        ELSE IF title = "Accident Severity Distribution"
        THEN Cardinality(Present(d, CLS))
        ELSE IF title = "Severity by Location"
        THEN Cardinality(Present(d, CLS) \cap Present(d, LOC))
        ELSE IF title \in DateTitles
        THEN Cardinality(DatedRows(d) \cap Present(d, CLS))
        ELSE IF title = "Accident Type by Time of Day"
        THEN Cardinality(TimedRows(d) \cap Present(d, CLS))
        ELSE LET w == CHOOSE i \in DOMAIN Worklist : Worklist[i].title = title
             IN  Cardinality(Present(d, Worklist[w].col))

\* C5: in every frequency table handed to the assembler all counts are
\* non-negative integers and their sum is the number of contributing rows:
\* the rows holding the field (single field), the rows holding both keys
\* (cross-tabulation, Severity by Location included).
C5_SumEqualsRows ==
    \A e \in LogSet :
        /\ ~HasNaN(e.table)
        /\ \A p \in e.table.index \X e.table.columns : CellNum(e.table.val[p]) >= 0
        /\ Total(e.table) = Contributing(e.title)

\* the column a heading's section was counted from, in either script
SingleFieldTitles == {Worklist[i].title : i \in DOMAIN Worklist}

ColumnOf(title) ==
    IF prog = "main" THEN title
    ELSE IF title = "Accident Severity Distribution" THEN CLS
    ELSE Worklist[CHOOSE i \in DOMAIN Worklist : Worklist[i].title = title].col

\* C6: the column classifier returns only text-typed fields with 2 to 15
\* distinct non-missing values and none of Latitude, Longitude, X-Coordinate,
\* Y-Coordinate; a field with exactly 1 distinct value is never returned and
\* gets no section, also when the assembler is asked for one.
C6_ClassifierBounds ==
    /\ \A i \in DOMAIN categorical_cols :
          LET col == categorical_cols[i]
          IN  /\ \E r \in DOMAIN file.table.rows : file.table.rows[r][col].k = "txt"
              /\ col \notin {"Latitude", "Longitude", "X-Coordinate", "Y-Coordinate"}
              /\ Cardinality({file.table.rows[r][col].v :
                                 r \in Present(file.table, col)}) \in 2..15
    /\ \A i \in DOMAIN doc :
          (/\ doc[i].t = "heading"
           /\ (prog = "main" \/ doc[i].s \in SingleFieldTitles
                  \/ doc[i].s = "Accident Severity Distribution")) =>
              Cardinality({file.table.rows[r][ColumnOf(doc[i].s)].v :
                              r \in Present(file.table, ColumnOf(doc[i].s))}) # 1

\* the batch script ended on a table whose Light column holds one distinct
\* value, and the pipeline was asked for that column's section
C6_Witness ==
    /\ pc = "done"
    /\ nunique(file.table, "Light") = 1
    /\ dtype(file.table, "Light") = "object"
    /\ \/ prog = "main" /\ categorical_cols = <<>>
       \/ prog = "app" /\ \E e \in LogSet : e.title = "Light Distribution"

Placeholders == {"[GPT Error: e]", "[GPT error: e]"}

\* C7: a section whose narrative call raised is emitted in full (heading,
\* chart, caption, paragraph) with the placeholder as its paragraph, the
\* counter rises by 1, one call was made and no exception leaves the section.
C7_NarrativeFailureContained ==
    \A e \in LogSet :
        e.narr = "raise" =>
            /\ e.calls = 1
            /\ ~e.raised
            /\ e.ordAfter = e.ordBefore + 1
            /\ e.docAfter = e.docBefore + 5
            /\ Len(doc) >= e.docAfter
            /\ doc[e.docBefore + 1] = El("heading", e.ordBefore, e.title)
            /\ doc[e.docBefore + 2].t = "picture"
            /\ doc[e.docBefore + 3] = El("caption", e.ordBefore, e.title)
            /\ doc[e.docBefore + 4].t = "para"
            /\ doc[e.docBefore + 4].s \in Placeholders

\* a report was written after the narrative call of its first section raised
\* and a later section was emitted
C7_Witness ==
    /\ pc = "done"
    /\ \E i \in DOMAIN log, j \in DOMAIN log :
          i < j /\ log[i].narr = "raise" /\ log[j].rendered

\* the guard of the spec: a single-field table needs 2 categories, a
\* cross-tabulation one contributing row
PassesGuard(t) == IF t.kind = "series" THEN len(t) >= 2 ELSE Total(t) >= 1

\* a row the map may plot, read from the uploaded table
ValidPoint(row) ==
    /\ row[LAT].k = "num" /\ row[LON].k = "num" /\ row[CLS].k # "na"
    /\ row[LAT].v[1] >= -90 /\ row[LAT].v[1] <= 90
    /\ row[LON].v[1] >= -180 /\ row[LON].v[1] <= 180

HasMapColumns == HasCol(file.table, LAT) /\ HasCol(file.table, LON) /\ HasCol(file.table, CLS)

MapEmitted == \E i \in DOMAIN doc : doc[i].t = "heading" /\ doc[i].s = MapTitle

\* C8: a candidate is emitted only if its table passes the guard, a candidate
\* failing it leaves report and counter as they were, and the map section
\* needs a row with latitude, longitude and classification present, latitude
\* in [-90, 90] and longitude in [-180, 180]; without one a warning is shown.
C8_GuardedEmission ==
    /\ \A e \in LogSet :
          /\ e.docAfter > e.docBefore => PassesGuard(e.table)
          /\ ~PassesGuard(e.table) =>
                e.docAfter = e.docBefore /\ e.ordAfter = e.ordBefore
    /\ (prog = "app" /\ MapEmitted) =>
          /\ HasMapColumns
          /\ \E r \in DOMAIN file.table.rows : ValidPoint(file.table.rows[r])
    /\ (/\ prog = "app" /\ pc \in {"diagram", "save", "done"} /\ HasMapColumns
        /\ file.table.rows # <<>>
        /\ \A r \in DOMAIN file.table.rows : ~ValidPoint(file.table.rows[r])) =>
          warnings # <<>>

\* the only row has latitude 95: no map section, a warning, and the severity
\* candidate of one category was skipped
C8_Witness ==
    /\ prog = "app" /\ pc = "done"
    /\ Len(file.table.rows) = 1
    /\ HasMapColumns
    /\ file.table.rows[1][LAT] = Num(95)
    /\ file.table.rows[1][CLS] = Txt("Fatal")
    /\ ~MapEmitted
    /\ warnings # <<>>
    /\ \E e \in LogSet : e.title = "Accident Severity Distribution" /\ ~e.rendered

Handed(title) == \E e \in LogSet : e.title = title

\* C9: once the spreadsheet is loaded, a failure while building one section
\* stays in that section: only a file-load failure ends the run without a
\* report, and a failure in the day-of-week section does not keep the
\* weekday/weekend and month sections from being processed.
C9_FailuresIsolated ==
    /\ (prog = "app" /\ pc = "failed") => ~file.readable
    /\ (/\ prog = "app" /\ pc \in {"time", "map", "diagram", "save", "done"}
        /\ HasCol(file.table, ADATE) /\ HasCol(file.table, CLS)) =>
          \A title \in DateTitles : Handed(title)

\* C10: a row whose date or time is missing or cannot be parsed is counted in
\* no weekday, in neither Weekday nor Weekend, in no month and in no time
\* period: each of these tables counts only rows with a parsed value.
C10_UnparsedNotBucketed ==
    \A e \in LogSet :
        (/\ prog = "app" /\ e.docAfter > e.docBefore
         /\ e.title \in DateTitles \cup {"Accident Type by Time of Day"}) =>
            Total(e.table) = Contributing(e.title)

=============================================================================
